---- MODULE Spec2Model ----
(***************************************************************************)
(* Model of solarSim: the device graph builder (Simulator.generateDevices, *)
(* dataStores.buildContext), the device update equations (modules.py), the *)
(* scheduler pass (Simulator.updateDevices inside Simulator.start), the    *)
(* protocol server's accesses to the shared register files, the poller     *)
(* thread (Simulator.unrealRequest) with its callback queue, and the       *)
(* shutdown signal (SignalHandler).                                        *)
(*                                                                         *)
(* Number representation.  Python floats are modelled by exact fixed-point *)
(* integers (float rounding is not modelled):                              *)
(*   irradiance            in 1/IrrUnit   W/m2  (tenths)                   *)
(*   real/reactive power   in 1/PowerUnit W     (irr/950*max is exact)     *)
(*   voltage, frequency    in 1/VoltUnit  V, Hz                            *)
(* Python booleans are modelled by the integers 0 and 1 (True == 1).       *)
(***************************************************************************)
EXTENDS Integers, Sequences, FiniteSets, TLC

VARIABLES
    config,        \* Simulator.config["devices"]: the topology description
    simWeather,    \* Simulator.simWeather (the --sim flag), 0 or 1
    solarPath,     \* config["unreal"]["solarPath"]
    stop,          \* SignalHandler.stop
    callbacks,     \* Simulator.callbacks: the queue of (callback, args)
    unrealPc,      \* position of the unreal_thread
    delivered,     \* history: the entry whose callback the loop invoked last
    pc,            \* position of the main thread
    devices,       \* Simulator.devices: group -> sequence of slave ids
    modules,       \* slaveId -> [name, moduleGroup, connections]
    inverters,     \* slaveId -> fields of an Inverter object
    breakers,      \* slaveId -> fields of a Breaker object
    transformers,  \* slaveId -> fields of a Transformer object
    meters,        \* slaveId -> fields of a Meter object
    simControl,    \* fields of the SimulationController object
    regs,          \* slaveId -> register file [di, co, hr, ir]
    tick,          \* number of device-update passes started
    pos,           \* slave id of the device the pass is at
    visited,       \* history: devices whose update() was called in this pass
    raised,        \* history: slave id whose update() raised in this pass, or 0
    tickStart,     \* history: the inverters' fields when this pass started
    controlStart,  \* history: the controller's fields when this pass started
    outTick,       \* history: slaveId -> pass that last computed its output
    usedTick,      \* history: slaveId -> source -> pass of the output used
    fieldTick,     \* history: slaveId -> pass of the output its fields carry
    exported,      \* history: slaveId -> bank -> pass that last wrote it
    lastWrite,     \* history: the last write of a protocol client
    nWrites,       \* number of client writes so far
    lastRead       \* history: what the last protocol read observed

vars == <<config, simWeather, solarPath, stop, callbacks, unrealPc,
          delivered, pc, devices, modules, inverters, breakers,
          transformers, meters, simControl, regs, tick, pos, visited, raised,
          tickStart, controlStart, outTick, usedTick, fieldTick, exported, lastWrite,
          nWrites, lastRead>>

(***************************************************************************)
(* Bounds of the model                                                     *)
(***************************************************************************)
MaxTicks == 3
MaxClientWrites == 1
MaxCallbacks == 2

(***************************************************************************)
(* Units                                                                   *)
(***************************************************************************)
IrrRef == 950
IrrUnit == 2 * 5
PowerUnit == IrrRef * IrrUnit
VoltUnit == 100 * 100

(***************************************************************************)
(* Helpers                                                                 *)
(***************************************************************************)
Range(s) == {s[i] : i \in DOMAIN s}

Abs(n) == IF n < 0 THEN -n ELSE n

\* Python int(): truncation toward zero of n/d
Trunc(n, d) == IF n >= 0 THEN n \div d ELSE -((-n) \div d)

Truthy(x) == x # 0

Bool(b) == IF b THEN 1 ELSE 0

RECURSIVE SumSeq(_)
SumSeq(s) == IF s = <<>> THEN 0 ELSE Head(s) + SumSeq(Tail(s))

RECURSIVE GCD(_, _)
GCD(a, b) == IF b = 0 THEN a ELSE GCD(b, a % b)

NoConn == [g \in {} |-> <<>>]

(***************************************************************************)
(* Topology descriptions (config["devices"]).  "order" is the key order of *)
(* the mapping, "devices" maps a group to its list of {name, connections}. *)
(***************************************************************************)
Dev(name, conn) == [name |-> name, connections |-> conn]

CanonicalOrder ==
    <<"inverters", "feederBreakers", "transformers", "mainBreakers",
      "checkMeters">>

ChainDevices ==
    [inverters      |-> <<Dev("inverter1", NoConn)>>,
     feederBreakers |-> <<Dev("feeder1Breaker",
                             [inverters |-> <<"inverter1">>])>>,
     transformers   |-> <<Dev("transformer1",
                             [feederBreakers |-> <<"feeder1Breaker">>])>>,
     mainBreakers   |-> <<Dev("mainBreaker1",
                             [feederBreakers |-> <<"feeder1Breaker">>,
                              transformers |-> <<"transformer1">>])>>,
     checkMeters    |-> <<Dev("checkMeter1", NoConn)>>]

\* 1 inverter -> feeder breaker -> transformer -> main breaker -> check meter
ChainTopology == [order |-> CanonicalOrder, devices |-> ChainDevices]

\* the feeder breaker also names an inverter that does not exist
DanglingTopology ==
    [order |-> CanonicalOrder,
     devices |-> [ChainDevices EXCEPT !.feederBreakers =
        <<Dev("feeder1Breaker", [inverters |-> <<"inverter1", "inverter9">>])>>]]

\* the transformers group is listed before the feeder breakers it reads
MisorderedTopology ==
    [order |-> <<"inverters", "transformers", "feederBreakers",
                 "mainBreakers", "checkMeters">>,
     devices |-> ChainDevices]

\* feeder breaker and transformer name each other
CyclicTopology ==
    [order |-> CanonicalOrder,
     devices |-> [ChainDevices EXCEPT !.feederBreakers =
        <<Dev("feeder1Breaker", [inverters |-> <<"inverter1">>,
                                 transformers |-> <<"transformer1">>])>>]]

\* the main breaker lists feeder breakers but has no "transformers" entry
NoTransformerTopology ==
    [order |-> CanonicalOrder,
     devices |-> [ChainDevices EXCEPT !.mainBreakers =
        <<Dev("mainBreaker1", [feederBreakers |-> <<"feeder1Breaker">>])>>]]

\* a connection names a group that the description does not contain
UnknownGroupTopology ==
    [order |-> CanonicalOrder,
     devices |-> [ChainDevices EXCEPT !.feederBreakers =
        <<Dev("feeder1Breaker", [inverters |-> <<"inverter1">>,
                                 metStations |-> <<"met1">>])>>]]

\* the check-meter group is listed and empty
EmptyMeterTopology ==
    [order |-> CanonicalOrder,
     devices |-> [ChainDevices EXCEPT !.checkMeters = <<>>]]

Topologies ==
    <<ChainTopology, DanglingTopology, MisorderedTopology, CyclicTopology,
      NoTransformerTopology, UnknownGroupTopology,
      EmptyMeterTopology>>

(***************************************************************************)
(* Simulator.generateDevices and dataStores.buildContext                   *)
(***************************************************************************)
\* Simulator.modules: the class instantiated for each device group
ModuleClass(g) ==
    CASE g = "inverters" -> "Inverter"
      [] g = "feederBreakers" -> "Breaker"
      [] g = "transformers" -> "Transformer"
      [] g = "mainBreakers" -> "Breaker"
      [] g = "checkMeters" -> "Meter"
      [] g = "simControl" -> "SimulationController"
      [] OTHER -> "KeyError"

\* first pass: one module per listed device, in description order; the
\* slave id of a module is its index in this sequence (nextSlaveId)
RECURSIVE Instantiate(_, _)
Instantiate(cfg, k) ==
    IF k > Len(cfg.order) THEN <<>>
    ELSE LET g == cfg.order[k]
             l == cfg.devices[g]
         IN [i \in 1..Len(l) |->
                [name |-> l[i].name, moduleGroup |-> g,
                 connections |-> l[i].connections]]
            \o Instantiate(cfg, k + 1)

\* self.devices[g] after the first pass: slave ids of group g, ascending
GroupIds(mods, g) ==
    LET n == Cardinality({i \in DOMAIN mods : mods[i].moduleGroup = g})
        first == IF n = 0 THEN 0
                 ELSE CHOOSE i \in DOMAIN mods :
                        /\ mods[i].moduleGroup = g
                        /\ \A j \in DOMAIN mods :
                             mods[j].moduleGroup = g => i <= j
    IN [k \in 1..n |-> first + k - 1]

\* every input list looked up among the inverters, whatever its input type
ResolveConnections_InvertersOnly(mods, conn) ==
    [inputType \in DOMAIN conn |->
        SelectSeq(GroupIds(mods, "inverters"), LAMBDA d : TRUE)]

\* second pass: names replaced by the modules of the input group whose
\* name is in the list; a name that matches nothing is dropped
ResolveConnections(mods, conn) ==
    [inputType \in DOMAIN conn |->
        SelectSeq(GroupIds(mods, inputType),
                  LAMBDA d : mods[d].name \in Range(conn[inputType]))]

\* the lookups of generateDevices that raise KeyError
BuildRaises(cfg) ==
    LET mods == Instantiate(cfg, 1)
    IN \/ \E k \in DOMAIN cfg.order : ModuleClass(cfg.order[k]) = "KeyError"
       \/ \E i \in DOMAIN mods : \E inputType \in DOMAIN mods[i].connections :
             inputType \notin Range(cfg.order)
       \/ ~ ({"inverters", "checkMeters", "mainBreakers"} \subseteq Range(cfg.order))

\* the simulation controller numbered first, the listed devices after it
BuiltModules_ControllerFirst(cfg) ==
    LET mods == Instantiate(cfg, 1)
    IN <<[name |-> "simControl", moduleGroup |-> "simControl",
          connections |->
             [inverters |-> GroupIds(mods, "inverters"),
              meters |-> GroupIds(mods, "checkMeters"),
              breakers |-> GroupIds(mods, "mainBreakers")]]>>
       \o [i \in DOMAIN mods |-> [mods[i] EXCEPT !.connections = NoConn]]

\* slaveId -> module, the simulation controller appended last
BuiltModules(cfg) ==
    LET mods == Instantiate(cfg, 1)
        resolved == [i \in DOMAIN mods |->
            [mods[i] EXCEPT !.connections =
                IF DOMAIN mods[i].connections = {} THEN NoConn
                ELSE ResolveConnections(mods, mods[i].connections)]]
    IN Append(resolved,
              [name |-> "simControl", moduleGroup |-> "simControl",
               connections |->
                  [inverters |-> GroupIds(mods, "inverters"),
                   meters |-> GroupIds(mods, "checkMeters"),
                   breakers |-> GroupIds(mods, "mainBreakers")]])

BuiltDevices(cfg) ==
    LET mods == BuiltModules(cfg)
    IN [g \in Range(cfg.order) \cup {"simControl"} |-> GroupIds(mods, g)]

IdsOfClass(mods, c) ==
    {i \in DOMAIN mods : ModuleClass(mods[i].moduleGroup) = c}

\* the inverter constructed at the reference irradiance
InverterInit_Lit ==
    [irradiance |-> 950 * IrrUnit, realPowerSp |-> 2000, reactivePowerSp |-> 0,
     isEnabled |-> 1, maxRealPower |-> 2000, maxReactivePower |-> 1500,
     voltageL1 |-> 34 * VoltUnit, voltageL2 |-> 34 * VoltUnit,
     voltageL3 |-> 34 * VoltUnit]

\* Inverter.__init__
InverterInit ==
    [irradiance |-> 0, realPowerSp |-> 2000, reactivePowerSp |-> 0,
     isEnabled |-> 1, maxRealPower |-> 2000, maxReactivePower |-> 1500,
     voltageL1 |-> 34 * VoltUnit, voltageL2 |-> 34 * VoltUnit,
     voltageL3 |-> 34 * VoltUnit]

\* Meter.__init__
MeterInit ==
    [realPower |-> 0, reactivePower |-> 0, voltageL1 |-> 0, voltageL2 |-> 0,
     voltageL3 |-> 0, currentL1 |-> 0, currentL2 |-> 0, currentL3 |-> 0,
     frequency |-> 60 * VoltUnit]

\* Breaker.__init__
BreakerInit ==
    [_realPower |-> 0, _reactivePower |-> 0, _voltageL1 |-> 0,
     _voltageL2 |-> 0, _voltageL3 |-> 0, _frequency |-> 60 * VoltUnit,
     closeCommand |-> 1]

\* Transformer.__init__ (ratio 3.8 kept in tenths)
TransformerInit ==
    [_realPower |-> 0, _reactivePower |-> 0, _voltageL1 |-> 0,
     _voltageL2 |-> 0, _voltageL3 |-> 0, ratio |-> 38]

\* the controller constructed in the dusk state
SimulationControllerInit_Dusk(weather) ==
    [simWeatherEnabled |-> weather, irradiance |-> 900 * IrrUnit,
     irradianceDeviation |-> 20, tempDeviation |-> 0,
     voltageStepDifference |-> 0, acLossRatio |-> 98, freqDroop |-> 0,
     voltageDeviation |-> 5, voltageHighLimit |-> 142, voltageLowLimit |-> 134,
     weatherState |-> 4, voltageStepCommand |-> 0,
     nominalGridVoltage |-> 138, reactivePowerMaxDeviation |-> 25]

\* SimulationController.__init__ (the fields the update reads or writes)
SimulationControllerInit(weather) ==
    [simWeatherEnabled |-> weather, irradiance |-> 900 * IrrUnit,
     irradianceDeviation |-> 20, tempDeviation |-> 0,
     voltageStepDifference |-> 0, acLossRatio |-> 98, freqDroop |-> 0,
     voltageDeviation |-> 5, voltageHighLimit |-> 142, voltageLowLimit |-> 134,
     weatherState |-> 0, voltageStepCommand |-> 0,
     nominalGridVoltage |-> 138, reactivePowerMaxDeviation |-> 25]

\* dataStores.baseDataStore: four zeroed banks (of the 100 cells of each
\* bank only the cells some device uses are kept)
baseDataStore ==
    [di |-> [a \in 1..1 |-> 0], co |-> [a \in 1..1 |-> 0],
     hr |-> [a \in 1..10 |-> 0], ir |-> [a \in 1..10 |-> 0]]

NoRead == [slaveId |-> 0, ir |-> 0, di |-> 0]
NoWrite == [slaveId |-> 0, bank |-> "none", address |-> 0, value |-> 0,
            tick |-> 0]

\* the state Simulator.__init__ starts generateDevices in
Start(cfg, weather, path) ==
    /\ config = cfg
    /\ simWeather = weather
    /\ solarPath = path
    /\ stop = FALSE
    /\ callbacks = <<>>
    /\ unrealPc = "none"
    /\ delivered = <<>>
    /\ pc = "init"
    /\ devices = NoConn
    /\ modules = <<>>
    /\ inverters = NoConn
    /\ breakers = NoConn
    /\ transformers = NoConn
    /\ meters = NoConn
    /\ simControl = SimulationControllerInit(0)
    /\ regs = <<>>
    /\ tick = 0
    /\ pos = 0
    /\ visited = {}
    /\ raised = 0
    /\ tickStart = NoConn
    /\ controlStart = SimulationControllerInit(0)
    /\ outTick = <<>>
    /\ usedTick = <<>>
    /\ fieldTick = <<>>
    /\ exported = <<>>
    /\ lastWrite = NoWrite
    /\ nWrites = 0
    /\ lastRead = NoRead

\* every topology, with and without --sim, no solar object to poll
Init ==
    \E t \in DOMAIN Topologies : \E weather \in {0, 1} :
        Start(Topologies[t], weather, "")

\* the stop flag, the poller thread and its channel to the loop
threads == <<solarPath, stop, callbacks, unrealPc, delivered>>

history == <<visited, raised, tickStart, controlStart, outTick, usedTick, fieldTick,
             exported, lastWrite, nWrites, lastRead>>

\* Simulator.__init__: generateDevices raises and the process never starts
generateDevicesFails ==
    /\ pc = "init"
    /\ BuildRaises(config)
    /\ pc' = "failed"
    /\ UNCHANGED threads
    /\ UNCHANGED <<config, simWeather, devices, modules, inverters, breakers,
                   transformers, meters, simControl, regs, tick, pos, history>>

\* Simulator.__init__: generateDevices, buildContext, the threads started
generateDevices ==
    /\ pc = "init"
    /\ ~ BuildRaises(config)
    /\ LET mods == BuiltModules(config)
       IN /\ modules' = mods
          /\ devices' = BuiltDevices(config)
          /\ inverters' = [i \in IdsOfClass(mods, "Inverter") |-> InverterInit]
          /\ breakers' = [i \in IdsOfClass(mods, "Breaker") |-> BreakerInit]
          /\ transformers' =
                [i \in IdsOfClass(mods, "Transformer") |-> TransformerInit]
          /\ meters' = [i \in IdsOfClass(mods, "Meter") |-> MeterInit]
          /\ simControl' = SimulationControllerInit(simWeather)
          /\ regs' = [i \in DOMAIN mods |-> baseDataStore]
          /\ outTick' = [i \in DOMAIN mods |-> 0]
          /\ usedTick' = [i \in DOMAIN mods |-> NoConn]
          /\ fieldTick' = [i \in DOMAIN mods |-> 0]
          /\ exported' = [i \in DOMAIN mods |-> [ir |-> 0, di |-> 0, hr |-> 0]]
    \* the unreal_thread starts; unrealRequest returns at once when the
    \* description names no solar object
    /\ unrealPc' = IF solarPath = "" THEN "returned" ELSE "poll"
    /\ pc' = "loop"
    /\ UNCHANGED <<config, simWeather, solarPath, stop, callbacks, delivered,
                   tick, pos, visited, raised, tickStart, controlStart, lastWrite, nWrites,
                   lastRead>>

(***************************************************************************)
(* Random draws.  Each set samples the range of one random.randint call.   *)
(***************************************************************************)
FreqDraws == {-100, 100}
VoltageDraws == {-100, 100}
ReactiveDraws == {0, 100}
RampDraws == {-10, 75}
StepDraws == {-100, 100}
SpikeDraws == {0, 1}
NoiseDraws == {-25, 0, 25}

(***************************************************************************)
(* Register files                                                          *)
(***************************************************************************)
\* the bank a Modbus function code addresses in ModbusSlaveContext
Bank(fx) ==
    CASE fx = 1 -> "co" [] fx = 2 -> "di" [] fx = 3 -> "hr" [] fx = 4 -> "ir"

\* serverContext[slaveId].setValues(fx, address, values), one atomic store
setValues(file, fx, address, values) ==
    [file EXCEPT ![Bank(fx)] =
        [a \in DOMAIN @ |->
            IF a >= address /\ a < address + Len(values)
            THEN values[a - address + 1] ELSE @[a]]]

(***************************************************************************)
(* Inverter                                                                *)
(***************************************************************************)
\* the irradiance share of maxRealPower, the set point never consulted
InverterRealPower_Unlimited(i) ==
    IF Truthy(i.isEnabled) THEN i.irradiance * i.maxRealPower ELSE 0

InverterRealPower(i) ==
    IF Truthy(i.isEnabled)
    THEN LET newRealPower == i.irradiance * i.maxRealPower
         IN IF i.realPowerSp * PowerUnit < newRealPower
            THEN i.realPowerSp * PowerUnit
            ELSE newRealPower
    ELSE 0

InverterReactivePower(i) ==
    IF Truthy(i.isEnabled)
    THEN IF i.reactivePowerSp < i.maxReactivePower
         THEN i.reactivePowerSp * PowerUnit
         ELSE i.maxReactivePower * PowerUnit
    ELSE 0

InverterWriteModbus(i) ==
    <<Trunc(InverterRealPower(i), PowerUnit),
      Trunc(InverterReactivePower(i), PowerUnit),
      Trunc(i.voltageL1 * 100, VoltUnit),
      Trunc(i.voltageL2 * 100, VoltUnit),
      Trunc(i.voltageL3 * 100, VoltUnit),
      i.maxRealPower,
      i.maxReactivePower>>

(***************************************************************************)
(* Power factor of a meter or breaker, in hundredths truncated toward zero *)
(* (the only use of the property is int(powerFactor * 100))                *)
(***************************************************************************)
\* n1/d1 <= n2/d2 for naturals with d1, d2 > 0, without forming products
RECURSIVE FracLe(_, _, _, _)
FracLe(n1, d1, n2, d2) ==
    LET q1 == n1 \div d1
        q2 == n2 \div d2
        r1 == n1 % d1
        r2 == n2 % d2
    IN IF q1 # q2 THEN q1 < q2
       ELSE IF r1 = 0 THEN TRUE
       ELSE IF r2 = 0 THEN FALSE
       ELSE FracLe(d2, r2, d1, r1)

PowerFactor(realPower, reactivePower) ==
    IF ~ Truthy(reactivePower) THEN 100
    ELSE IF realPower = 0 THEN 0
    ELSE LET g == GCD(Abs(realPower), Abs(reactivePower))
             a == Abs(realPower) \div g
             b == Abs(reactivePower) \div g
             \* largest k with k/100 <= a / sqrt(a*a + b*b)
             k == CHOOSE k \in 0..99 :
                    /\ k = 0 \/ FracLe(b * b, a * a, 10000 - k * k, k * k)
                    /\ ~ FracLe(b * b, a * a,
                                10000 - (k + 1) * (k + 1), (k + 1) * (k + 1))
             sign == IF (realPower < 0) = (reactivePower < 0) THEN 1 ELSE -1
         IN sign * k

(***************************************************************************)
(* Meter                                                                   *)
(***************************************************************************)
MeterPowerFactor(m) == PowerFactor(m.realPower, m.reactivePower)

MeterWriteModbus(m) ==
    <<Trunc(m.voltageL1 * 100, VoltUnit),
      Trunc(m.voltageL2 * 100, VoltUnit),
      Trunc(m.voltageL3 * 100, VoltUnit),
      m.currentL1 * 100,
      m.currentL2 * 100,
      m.currentL3 * 100,
      Trunc(m.frequency * 100, VoltUnit),
      Trunc(m.realPower, PowerUnit),
      Trunc(m.reactivePower, PowerUnit),
      MeterPowerFactor(m)>>

(***************************************************************************)
(* Breaker                                                                 *)
(***************************************************************************)
isBreakerClosed(b) == ~ Truthy(b.closeCommand)

\* the readout with the polarity of the test reversed
BreakerRealPower_Reversed(b) ==
    IF isBreakerClosed(b) THEN b._realPower ELSE 0

BreakerRealPower(b) == IF isBreakerClosed(b) THEN 0 ELSE b._realPower

BreakerReactivePower(b) == IF isBreakerClosed(b) THEN 0 ELSE b._reactivePower

BreakerVoltageL1(b) == IF isBreakerClosed(b) THEN 0 ELSE b._voltageL1

BreakerVoltageL2(b) == IF isBreakerClosed(b) THEN 0 ELSE b._voltageL2

BreakerVoltageL3(b) == IF isBreakerClosed(b) THEN 0 ELSE b._voltageL3

BreakerFrequency(b) == IF isBreakerClosed(b) THEN 0 ELSE b._frequency

\* the power factor with the zero test made on realPower
BreakerPowerFactor_TestsRealPower(b) ==
    IF ~ Truthy(BreakerRealPower(b)) THEN 0
    ELSE PowerFactor(BreakerRealPower(b), BreakerReactivePower(b))

BreakerPowerFactor(b) ==
    PowerFactor(BreakerRealPower(b), BreakerReactivePower(b))

\* the input registers Breaker.writeModbus stores
BreakerInputs(b) ==
    <<Trunc(BreakerVoltageL1(b) * 100, VoltUnit),
      Trunc(BreakerVoltageL2(b) * 100, VoltUnit),
      Trunc(BreakerVoltageL3(b) * 100, VoltUnit),
      Trunc(BreakerRealPower(b), PowerUnit),
      Trunc(BreakerReactivePower(b), PowerUnit),
      BreakerPowerFactor(b),
      Trunc(BreakerFrequency(b) * 100, VoltUnit)>>

\* the discrete inputs Breaker.writeModbus stores
BreakerDiscretes(b) == <<Bool(isBreakerClosed(b))>>

(***************************************************************************)
(* Transformer                                                             *)
(***************************************************************************)
TransformerVoltageL1(t) == (t._voltageL1 * t.ratio) \div 10

TransformerVoltageL2(t) == (t._voltageL2 * t.ratio) \div 10

TransformerVoltageL3(t) == (t._voltageL3 * t.ratio) \div 10

TransformerWriteModbus(t) ==
    <<Trunc(t._realPower, PowerUnit),
      Trunc(t._reactivePower, PowerUnit),
      Trunc(t._voltageL1 * 100, VoltUnit),
      Trunc(t._voltageL2 * 100, VoltUnit),
      Trunc(t._voltageL3 * 100, VoltUnit),
      Trunc(t._realPower, PowerUnit),
      Trunc(t._reactivePower, PowerUnit),
      Trunc(TransformerVoltageL1(t) * 100, VoltUnit),
      Trunc(TransformerVoltageL2(t) * 100, VoltUnit),
      Trunc(TransformerVoltageL3(t) * 100, VoltUnit)>>

(***************************************************************************)
(* The scheduler pass: Simulator.start and Simulator.updateDevices         *)
(***************************************************************************)
\* dict.get(key) is None or an empty list
Falsy(conn, key) == key \notin DOMAIN conn \/ conn[key] = <<>>

\* the loop of updateDevices moves on to the next device, or returns
Advance(id) ==
    IF id = Len(modules)
    THEN pc' = "callbacks" /\ pos' = 0
    ELSE pc' = "pass" /\ pos' = id + 1

\* the exception leaves updateDevices and Simulator.start as well
Raise_Uncaught(id) ==
    /\ pc' = "done"
    /\ pos' = 0
    /\ raised' = id

\* the exception leaves updateDevices and is caught in Simulator.start
Raise(id) ==
    /\ pc' = "loop"
    /\ pos' = 0
    /\ raised' = id

\* the update without inputs fails like a lookup that raises
EarlyReturn_Raises(id) == Raise(id)

\* "return" before anything is computed: updateDevices goes on
EarlyReturn(id) == Advance(id) /\ raised' = raised

AtDevice(id, class) ==
    /\ pc = "pass"
    /\ pos = id
    /\ id \in DOMAIN modules
    /\ ModuleClass(modules[id].moduleGroup) = class

\* the test at the head of the loop with the stop flag ignored
LoopContinues_Always == TRUE

\* Simulator.start: "if signal_handler.stop: break" does not leave the loop
LoopContinues == ~ stop

\* Simulator.start: the stop flag is clear and updateDevices begins
StartPass ==
    /\ pc = "loop"
    /\ LoopContinues
    /\ tick < MaxTicks
    /\ tick' = tick + 1
    /\ pc' = "pass"
    /\ pos' = 1
    /\ visited' = {}
    /\ raised' = 0
    /\ tickStart' = inverters
    /\ controlStart' = simControl
    /\ UNCHANGED threads
    /\ UNCHANGED <<config, simWeather, devices, modules, inverters, breakers,
                   transformers, meters, simControl, regs, outTick, usedTick,
                   fieldTick, exported, lastWrite, nWrites, lastRead>>

\* Module.update of an Inverter
UpdateInverter(id) ==
    /\ AtDevice(id, "Inverter")
    /\ regs' = [regs EXCEPT ![id] =
                  setValues(@, 4, 1, InverterWriteModbus(inverters[id]))]
    /\ visited' = visited \cup {id}
    /\ outTick' = [outTick EXCEPT ![id] = tick]
    /\ usedTick' = [usedTick EXCEPT ![id] =
          IF fieldTick[id] > 0
          THEN [s \in {Len(modules)} |-> fieldTick[id]] ELSE NoConn]
    /\ exported' = [exported EXCEPT ![id].ir = tick]
    /\ Advance(id)
    /\ UNCHANGED threads
    /\ UNCHANGED <<config, simWeather, devices, modules, inverters, breakers,
                   transformers, meters, simControl, tick, raised, tickStart, controlStart,
                   fieldTick, lastWrite, nWrites, lastRead>>

\* Module.update of a Meter
UpdateMeter(id) ==
    /\ AtDevice(id, "Meter")
    /\ regs' = [regs EXCEPT ![id] =
                  setValues(@, 4, 1, MeterWriteModbus(meters[id]))]
    /\ visited' = visited \cup {id}
    /\ outTick' = [outTick EXCEPT ![id] = tick]
    /\ usedTick' = [usedTick EXCEPT ![id] =
          IF fieldTick[id] > 0
          THEN [s \in {Head(devices["mainBreakers"])} |-> fieldTick[id]]
          ELSE NoConn]
    /\ exported' = [exported EXCEPT ![id].ir = tick]
    /\ Advance(id)
    /\ UNCHANGED threads
    /\ UNCHANGED <<config, simWeather, devices, modules, inverters, breakers,
                   transformers, meters, simControl, tick, raised, tickStart, controlStart,
                   fieldTick, lastWrite, nWrites, lastRead>>

\* the inverters keep the enable they had
EnableInverters_Skipped(invs, closeCommand) == inverters

\* for i in self.inverters: i.isEnabled = self.closeCommand
EnableInverters(invs, closeCommand) ==
    [i \in DOMAIN inverters |->
        IF i \in Range(invs)
        THEN [inverters[i] EXCEPT !.isEnabled = closeCommand]
        ELSE inverters[i]]

\* Breaker.update up to the first store of writeModbus (input registers)
UpdateBreaker(id) ==
    /\ AtDevice(id, "Breaker")
    /\ visited' = visited \cup {id}
    /\ LET self == breakers[id]
           conn == modules[id].connections
           group == modules[id].moduleGroup
       IN
       IF \/ (group = "feederBreakers" /\ Falsy(conn, "inverters"))
          \/ (group = "mainBreakers" /\ Falsy(conn, "feederBreakers"))
       THEN \* return: nothing is computed or exported
            /\ EarlyReturn(id)
            /\ UNCHANGED <<inverters, breakers, regs, outTick, usedTick,
                           exported>>
       ELSE IF group = "mainBreakers" /\ "transformers" \notin DOMAIN conn
       THEN \* for t in None: TypeError
            /\ Raise(id)
            /\ UNCHANGED <<inverters, breakers, regs, outTick, usedTick,
                           exported>>
       ELSE
         LET invs == IF group = "feederBreakers" THEN conn["inverters"]
                     ELSE <<>>
             brks == IF group = "mainBreakers" THEN conn["feederBreakers"]
                     ELSE <<>>
             trfs == IF group = "mainBreakers" THEN conn["transformers"]
                     ELSE <<>>
             CombinedRealPower ==
                SumSeq([k \in DOMAIN invs |-> InverterRealPower(inverters[invs[k]])])
                + SumSeq([k \in DOMAIN brks |-> BreakerRealPower(breakers[brks[k]])])
             CombinedReactivePower ==
                SumSeq([k \in DOMAIN invs |->
                           InverterReactivePower(inverters[invs[k]])])
                + SumSeq([k \in DOMAIN brks |->
                             BreakerReactivePower(breakers[brks[k]])])
             CombinedVoltageL1 ==
                IF group = "feederBreakers"
                THEN SumSeq([k \in DOMAIN invs |-> inverters[invs[k]].voltageL1])
                     \div Len(invs)
                ELSE SumSeq([k \in DOMAIN trfs |->
                               TransformerVoltageL1(transformers[trfs[k]])])
             CombinedVoltageL2 ==
                IF group = "feederBreakers"
                THEN SumSeq([k \in DOMAIN invs |-> inverters[invs[k]].voltageL2])
                     \div Len(invs)
                ELSE SumSeq([k \in DOMAIN trfs |->
                               TransformerVoltageL2(transformers[trfs[k]])])
             CombinedVoltageL3 ==
                IF group = "feederBreakers"
                THEN SumSeq([k \in DOMAIN invs |-> inverters[invs[k]].voltageL3])
                     \div Len(invs)
                ELSE SumSeq([k \in DOMAIN trfs |->
                               TransformerVoltageL3(transformers[trfs[k]])])
             updated == [self EXCEPT !._realPower = CombinedRealPower,
                                     !._reactivePower = CombinedReactivePower,
                                     !._voltageL1 = CombinedVoltageL1,
                                     !._voltageL2 = CombinedVoltageL2,
                                     !._voltageL3 = CombinedVoltageL3]
         IN /\ breakers' = [breakers EXCEPT ![id] = updated]
            \* the close command is copied to the enable of each inverter
            /\ inverters' = EnableInverters(invs, self.closeCommand)
            /\ regs' = [regs EXCEPT ![id] =
                          setValues(@, 4, 1, BreakerInputs(updated))]
            /\ outTick' = [outTick EXCEPT ![id] = tick]
            /\ usedTick' = [usedTick EXCEPT ![id] =
                  [s \in Range(invs) \cup Range(brks) \cup Range(trfs)
                     |-> outTick[s]]]
            /\ exported' = [exported EXCEPT ![id].ir = tick]
            /\ pc' = "discretes"
            /\ UNCHANGED <<pos, raised>>
    /\ UNCHANGED threads
    /\ UNCHANGED <<config, simWeather, devices, modules, transformers, meters,
                   simControl, tick, tickStart, controlStart, fieldTick, lastWrite, nWrites,
                   lastRead>>

\* Breaker.writeModbus: the second store (discrete inputs), then the pass
\* moves on
BreakerWriteDiscretes(id) ==
    /\ pc = "discretes"
    /\ pos = id
    /\ regs' = [regs EXCEPT ![id] =
                  setValues(@, 2, 1, BreakerDiscretes(breakers[id]))]
    /\ exported' = [exported EXCEPT ![id].di = tick]
    /\ Advance(id)
    /\ UNCHANGED threads
    /\ UNCHANGED <<config, simWeather, devices, modules, inverters, breakers,
                   transformers, meters, simControl, tick, visited, raised,
                   tickStart, controlStart, outTick, usedTick, fieldTick, lastWrite, nWrites,
                   lastRead>>

\* Transformer.update
UpdateTransformer(id) ==
    /\ AtDevice(id, "Transformer")
    /\ visited' = visited \cup {id}
    /\ LET self == transformers[id]
           conn == modules[id].connections
       IN
       IF Falsy(conn, "feederBreakers")
       THEN /\ UNCHANGED <<transformers, regs, outTick, usedTick, exported>>
       ELSE
         LET brks == conn["feederBreakers"]
             updated ==
               [self EXCEPT
                  !._realPower =
                     SumSeq([k \in DOMAIN brks |->
                               BreakerRealPower(breakers[brks[k]])]),
                  !._reactivePower =
                     SumSeq([k \in DOMAIN brks |->
                               BreakerReactivePower(breakers[brks[k]])]),
                  !._voltageL1 =
                     SumSeq([k \in DOMAIN brks |->
                               BreakerVoltageL1(breakers[brks[k]])])
                     \div Len(brks),
                  !._voltageL2 =
                     SumSeq([k \in DOMAIN brks |->
                               BreakerVoltageL2(breakers[brks[k]])])
                     \div Len(brks),
                  !._voltageL3 =
                     SumSeq([k \in DOMAIN brks |->
                               BreakerVoltageL3(breakers[brks[k]])])
                     \div Len(brks)]
         IN /\ transformers' = [transformers EXCEPT ![id] = updated]
            /\ regs' = [regs EXCEPT ![id] =
                          setValues(@, 4, 1, TransformerWriteModbus(updated))]
            /\ outTick' = [outTick EXCEPT ![id] = tick]
            /\ usedTick' = [usedTick EXCEPT ![id] =
                              [s \in Range(brks) |-> outTick[s]]]
            /\ exported' = [exported EXCEPT ![id].ir = tick]
    /\ Advance(id)
    /\ UNCHANGED threads
    /\ UNCHANGED <<config, simWeather, devices, modules, inverters, breakers,
                   meters, simControl, tick, raised, tickStart, controlStart, fieldTick,
                   lastWrite, nWrites, lastRead>>

(***************************************************************************)
(* SimulationController                                                    *)
(***************************************************************************)
\* the limits with the upper one left out
Clamp_NoUpper(x, poaMin, poaMax) == IF x < poaMin THEN poaMin ELSE x

\* if x > poaMax: poaMax elif x < poaMin: poaMin
Clamp(x, poaMin, poaMax) ==
    IF x > poaMax THEN poaMax ELSE IF x < poaMin THEN poaMin ELSE x

\* randint * irradianceDeviation * poaDeviationMultiplier / 100
PoaDeviation(r, irradianceDeviation, poaDeviationMultiplier) ==
    Trunc(r * irradianceDeviation * poaDeviationMultiplier * IrrUnit, 100)

\* weatherState 0: the irradiances the 60 sub-steps can end with
RECURSIVE DawnRamp(_, _, _, _, _)
DawnRamp(S, irradianceDeviation, i, poaMin, poaMax) ==
    IF i = 60 THEN S
    ELSE DawnRamp(
           {Clamp(x + PoaDeviation(r, irradianceDeviation,
                                   IF sp = 0 THEN 10 ELSE 1),
                  poaMin * IrrUnit, poaMax * IrrUnit) :
              x \in S, r \in RampDraws, sp \in SpikeDraws},
           irradianceDeviation, i + 1, poaMin + 75, poaMax + 80)

\* weatherState 4: the irradiances the 60 sub-steps can end with
RECURSIVE DuskRamp(_, _, _, _, _)
DuskRamp(S, irradianceDeviation, i, poaMin, poaMax) ==
    IF i = 60 THEN S
    ELSE DuskRamp(
           {Clamp(x + PoaDeviation(r, irradianceDeviation,
                                   IF sp = 0 THEN 10 ELSE 1),
                  poaMin * IrrUnit, poaMax * IrrUnit) :
              x \in S, r \in RampDraws, sp \in SpikeDraws},
           irradianceDeviation, i + 1,
           IF poaMin - 75 < 0 THEN 0 ELSE poaMin - 75,
           IF poaMax - 80 < 0 THEN 0 ELSE poaMax - 80)

\* the dawn ramp ends in the cloudy state
WeatherDawn_ToClouds(w, dev) ==
    IF w.weatherState = 0
    THEN {[irradiance |-> x, weatherState |-> 2] :
            x \in DawnRamp({w.irradiance}, dev, 0, 0, 200)}
    ELSE {w}

\* if self.weatherState == 0: the dawn ramp, then state 1
WeatherDawn(w, dev) ==
    IF w.weatherState = 0
    THEN {[irradiance |-> x, weatherState |-> 1] :
            x \in DawnRamp({w.irradiance}, dev, 0, 0, 200)}
    ELSE {w}

\* if self.weatherState == 1: ... elif self.weatherState == 2: ...
WeatherPlateau(w, dev) ==
    IF w.weatherState = 1
    THEN {[w EXCEPT !.irradiance =
              Clamp(@ + PoaDeviation(r, dev, IF sp = 0 THEN 10 ELSE 1),
                    800 * IrrUnit, 950 * IrrUnit)] :
            r \in StepDraws, sp \in SpikeDraws}
    ELSE IF w.weatherState = 2
    THEN {[w EXCEPT !.irradiance =
              Clamp(@ + PoaDeviation(r, dev, IF sp = 0 THEN 40 ELSE 10),
                    300 * IrrUnit, 950 * IrrUnit)] :
            r \in StepDraws, sp \in SpikeDraws}
    ELSE {w}

\* if self.weatherState == 4: the dusk ramp, then state 5
WeatherDusk(w, dev) ==
    IF w.weatherState = 4
    THEN {[irradiance |-> x, weatherState |-> 5] :
            x \in DuskRamp({w.irradiance}, dev, 0, 100, 500)}
    ELSE {w}

\* state 5 left as it is
WeatherNight_Stays(w) == w

\* if self.weatherState == 5: irradiance 0, then state 0
WeatherNight(w) ==
    IF w.weatherState = 5
    THEN [irradiance |-> 0, weatherState |-> 0] ELSE w

\* the weather sim of one update: the possible [irradiance, weatherState]
WeatherSim(self) ==
    LET dev == self.irradianceDeviation
        start == [irradiance |-> self.irradiance,
                  weatherState |-> self.weatherState]
        s0 == WeatherDawn(start, dev)
        s12 == UNION {WeatherPlateau(w, dev) : w \in s0}
        s4 == UNION {WeatherDusk(w, dev) : w \in s12}
    IN {WeatherNight(w) : w \in s4}

SimulationControllerWriteModbus(self) ==
    <<self.irradianceDeviation, self.tempDeviation,
      self.voltageStepDifference, self.acLossRatio, self.freqDroop,
      self.voltageDeviation, self.voltageHighLimit, self.voltageLowLimit,
      self.weatherState, self.voltageStepCommand>>

\* the controller's irradiance plus the draw, never floored
InverterIrradiance_NoFloor(irradiance, n) == irradiance + n * IrrUnit

\* inverter.irradiance = self.irradiance + randint(-25,25), at least 0
InverterIrradiance(irradiance, n) ==
    IF irradiance + n * IrrUnit < 0 THEN 0 ELSE irradiance + n * IrrUnit

\* SimulationController.update
UpdateSimControl(id) ==
    /\ AtDevice(id, "SimulationController")
    /\ visited' = visited \cup {id}
    /\ LET self == simControl
           conn == modules[id].connections
       IN
       IF conn["breakers"] = <<>> \/ conn["meters"] = <<>>
       THEN \* connections[...][0]: IndexError
            /\ Raise(id)
            /\ UNCHANGED <<inverters, meters, simControl, regs, outTick,
                           usedTick, fieldTick, exported>>
       ELSE
         \E w \in IF Truthy(self.simWeatherEnabled) THEN WeatherSim(self)
                  ELSE {[irradiance |-> self.irradiance,
                         weatherState |-> self.weatherState]} :
         \E fr \in FreqDraws, vr \in VoltageDraws, rr \in ReactiveDraws :
         \E noise \in [Range(conn["inverters"]) -> NoiseDraws] :
         LET mb == conn["breakers"][1]
             cm == conn["meters"][1]
             mainBreaker == breakers[mb]
             checkMeter == meters[cm]
             \* 0.1 * multiplier / 100 Hz
             frequency == checkMeter.frequency + self.freqDroop * VoltUnit
                          + Trunc(fr * VoltUnit, 10 * 100)
             oldReactivePower ==
                SumSeq([k \in DOMAIN conn["inverters"] |->
                   InverterReactivePower(inverters[conn["inverters"][k]])])
             newReactivePower ==
                SumSeq([k \in DOMAIN conn["inverters"] |->
                   InverterReactivePower(inverters[conn["inverters"][k]])])
             deltaReactivePower == newReactivePower - oldReactivePower
             voltageStep == IF Truthy(self.voltageStepCommand)
                            THEN self.voltageStepDifference ELSE 0
             \* delta * (acLossRatio / 100) * voltageEffectPerVar (0.0005)
             voltageChangeFromPlant ==
                Trunc(deltaReactivePower * self.acLossRatio * (VoltUnit \div 2000),
                      100 * PowerUnit)
             \* multiplier / 100 * voltageMaxDeviation (0.05)
             unclamped == self.nominalGridVoltage * VoltUnit
                          + voltageChangeFromPlant
                          + Trunc(vr * 5 * VoltUnit, 100 * 100)
                          + voltageStep * VoltUnit
             limited == IF unclamped > self.voltageHighLimit * VoltUnit
                        THEN self.voltageHighLimit * VoltUnit ELSE unclamped
             meterVoltage == IF limited < self.voltageLowLimit * VoltUnit
                             THEN self.voltageLowLimit * VoltUnit ELSE limited
             meterReactivePower ==
                BreakerReactivePower(mainBreaker)
                + Trunc(rr * self.reactivePowerMaxDeviation * PowerUnit, 100)
             updated == [self EXCEPT
                           !.voltageStepCommand =
                              IF Truthy(@) THEN 0 ELSE @,
                           !.irradiance = w.irradiance,
                           !.weatherState = w.weatherState]
         IN /\ meters' = [meters EXCEPT ![cm] =
                  [@ EXCEPT !.frequency = frequency,
                            !.realPower = BreakerRealPower(mainBreaker),
                            !.reactivePower = Abs(meterReactivePower),
                            !.voltageL1 = meterVoltage,
                            !.voltageL2 = meterVoltage,
                            !.voltageL3 = meterVoltage]]
            /\ simControl' = updated
            /\ inverters' =
                  IF Truthy(self.simWeatherEnabled)
                  THEN [i \in DOMAIN inverters |->
                          IF i \in Range(conn["inverters"])
                          THEN [inverters[i] EXCEPT !.irradiance =
                                  InverterIrradiance(w.irradiance, noise[i])]
                          ELSE inverters[i]]
                  ELSE inverters
            /\ regs' = [regs EXCEPT ![id] =
                  setValues(@, 3, 1, SimulationControllerWriteModbus(updated))]
            /\ outTick' = [outTick EXCEPT ![id] = tick]
            /\ usedTick' = [usedTick EXCEPT ![id] =
                  [s \in {mb, cm} \cup Range(conn["inverters"]) |-> outTick[s]]]
            /\ fieldTick' = [i \in DOMAIN fieldTick |->
                  IF i = cm THEN outTick[mb]
                  ELSE IF /\ Truthy(self.simWeatherEnabled)
                          /\ i \in Range(conn["inverters"])
                  THEN tick
                  ELSE fieldTick[i]]
            /\ exported' = [exported EXCEPT ![id].hr = tick]
            /\ Advance(id)
            /\ UNCHANGED raised
    /\ UNCHANGED threads
    /\ UNCHANGED <<config, simWeather, devices, modules, breakers,
                   transformers, tick, tickStart, controlStart, lastWrite, nWrites, lastRead>>

(***************************************************************************)
(* The protocol server thread (StartTcpServer on the shared context)       *)
(***************************************************************************)
\* the cells each class's readModbus takes its commands from
CommandCells(class) ==
    CASE class = "Inverter" -> {<<3, 1>>, <<3, 2>>, <<1, 1>>}
      [] class = "Breaker" -> {<<1, 1>>}
      [] class = "Transformer" -> {<<3, 1>>}
      [] class = "SimulationController" ->
            {<<3, a>> : a \in 1..9} \cup {<<1, 1>>}
      [] OTHER -> {}

\* values a client writes to a holding register
HoldingValues == {0, 2, 1000}

ServerRunning == pc \in {"loop", "pass", "discretes", "callbacks"}

\* a client writes one coil or one holding register of a device
ClientWrite(id, fx, address, value) ==
    /\ ServerRunning
    /\ nWrites < MaxClientWrites
    /\ id \in DOMAIN modules
    /\ <<fx, address>> \in CommandCells(ModuleClass(modules[id].moduleGroup))
    /\ value \in IF fx = 1 THEN {0, 1} ELSE HoldingValues
    /\ regs' = [regs EXCEPT ![id] = setValues(@, fx, address, <<value>>)]
    /\ lastWrite' = [slaveId |-> id, bank |-> Bank(fx), address |-> address,
                     value |-> value, tick |-> tick]
    /\ nWrites' = nWrites + 1
    /\ UNCHANGED threads
    /\ UNCHANGED <<config, simWeather, pc, devices, modules, inverters,
                   breakers, transformers, meters, simControl, tick, pos,
                   visited, raised, tickStart, controlStart, outTick, usedTick, fieldTick,
                   exported, lastRead>>

\* a client polls a device: its input registers and discrete inputs as the
\* server finds them at this moment
ClientRead(id) ==
    /\ ServerRunning
    /\ id \in DOMAIN modules
    /\ lastRead' = [slaveId |-> id, ir |-> exported[id].ir,
                    di |-> exported[id].di]
    /\ UNCHANGED threads
    /\ UNCHANGED <<config, simWeather, pc, devices, modules, inverters,
                   breakers, transformers, meters, simControl, regs, tick, pos,
                   visited, raised, tickStart, controlStart, outTick, usedTick, fieldTick,
                   exported, lastWrite, nWrites>>

(***************************************************************************)
(* The callback queue, the unreal_thread and the shutdown signal           *)
(***************************************************************************)
\* a decoded response of the remote object: the names of its properties
Response == {"intensity"}

\* the empty dict {}
EmptySnapshot == {}

\* what session.put / request.json() can do
RequestOutcomes == {"response", "timeout", "undecodable"}

\* getProperty without its except clause: a failure leaves the method
getProperty_Propagates(outcome) ==
    [raised |-> outcome # "response",
     value |-> IF outcome = "response" THEN Response ELSE EmptySnapshot]

\* UnrealService.getProperty: every exception is caught and {} returned
getProperty(outcome) ==
    [raised |-> FALSE,
     value |-> IF outcome = "response" THEN Response ELSE EmptySnapshot]

\* Simulator.start: callbacks.get(timeout=1), then the callback is invoked
\* (unrealCallback only logs its argument), or queue.Empty is passed over
CheckCallbacks ==
    /\ pc = "callbacks"
    /\ IF callbacks = <<>>
       THEN UNCHANGED <<callbacks, delivered>>
       ELSE /\ callbacks' = Tail(callbacks)
            /\ delivered' = <<Head(callbacks)>>
    /\ pc' = "loop"
    /\ UNCHANGED <<config, simWeather, solarPath, stop, unrealPc, devices,
                   modules, inverters, breakers, transformers, meters,
                   simControl, regs, tick, pos, history>>

\* Simulator.start: the stop flag is set at the head of the loop: break
ExitLoop ==
    /\ pc = "loop"
    /\ ~ LoopContinues
    /\ pc' = "done"
    /\ UNCHANGED <<config, simWeather, threads, devices, modules, inverters,
                   breakers, transformers, meters, simControl, regs, tick, pos,
                   history>>

\* SignalHandler.shutdown: SIGINT or SIGTERM while the loop runs
Signal ==
    /\ pc \in {"loop", "pass", "discretes", "callbacks"}
    /\ ~ stop
    /\ stop' = TRUE
    /\ UNCHANGED <<config, simWeather, solarPath, callbacks, unrealPc,
                   delivered, pc, devices, modules, inverters, breakers,
                   transformers, meters, simControl, regs, tick, pos, history>>

\* the entry unrealRequest puts for the result of a request: the callback
\* and its arguments; "failed" is history: the request gave no response
Entry(outcome) ==
    [callback |-> "unrealCallback",
     args |-> <<getProperty(outcome).value>>,
     failed |-> outcome # "response"]

\* Simulator.unrealRequest: getProperty, then callbacks.put; an exception
\* that left getProperty would end the thread
Poll(outcome) ==
    /\ unrealPc = "poll"
    /\ pc # "done"
    /\ Len(callbacks) < MaxCallbacks
    /\ IF getProperty(outcome).raised
       THEN unrealPc' = "dead" /\ UNCHANGED callbacks
       ELSE /\ callbacks' = Append(callbacks, Entry(outcome))
            /\ unrealPc' = "sleep"
    /\ UNCHANGED <<config, simWeather, solarPath, stop, delivered, pc, devices,
                   modules, inverters, breakers, transformers, meters,
                   simControl, regs, tick, pos, history>>

\* Simulator.unrealRequest: time.sleep(self.unrealPollRate)
Sleep ==
    /\ unrealPc = "sleep"
    /\ pc # "done"
    /\ unrealPc' = "poll"
    /\ UNCHANGED <<config, simWeather, solarPath, stop, callbacks, delivered,
                   pc, devices, modules, inverters, breakers, transformers,
                   meters, simControl, regs, tick, pos, history>>

\* the unreal_thread
unrealRequest == (\E outcome \in RequestOutcomes : Poll(outcome)) \/ Sleep

\* one iteration of the loop of Simulator.start
Iteration ==
    \/ StartPass
    \/ \E id \in DOMAIN modules : UpdateInverter(id)
    \/ \E id \in DOMAIN modules : UpdateBreaker(id)
    \/ \E id \in DOMAIN modules : BreakerWriteDiscretes(id)
    \/ \E id \in DOMAIN modules : UpdateTransformer(id)
    \/ \E id \in DOMAIN modules : UpdateMeter(id)
    \/ \E id \in DOMAIN modules : UpdateSimControl(id)
    \/ CheckCallbacks

\* the main thread: Simulator.__init__, then the loop of Simulator.start
Scheduler ==
    \/ generateDevicesFails
    \/ generateDevices
    \/ Iteration

\* the modbus_server thread: requests that write a command cell
ServerWrites ==
    \E id \in DOMAIN modules : \E fx \in {1, 3} : \E address \in 1..9 :
    \E value \in {0, 1} \cup HoldingValues :
        ClientWrite(id, fx, address, value)

\* the modbus_server thread: requests that read the telemetry of a device
ServerReads == \E id \in DOMAIN modules : ClientRead(id)

Next == Scheduler

\* the main thread alone, over every topology, with and without --sim
Spec == Init /\ [][Next]_vars

\* the chain topology without --sim
InitServer == Start(ChainTopology, 0, "")

SchedulerRuns ==
    \/ generateDevices
    \/ Iteration

NextWrites == SchedulerRuns \/ ServerWrites

NextReads == SchedulerRuns \/ ServerReads

\* the main thread and a protocol client that writes command cells
SpecWrites == InitServer /\ [][NextWrites]_vars

\* the main thread and a protocol client that polls telemetry
SpecReads == InitServer /\ [][NextReads]_vars

\* the weather states and irradiances the weather simulation is taken from
WeatherStates == {0, 1, 2, 4, 5}
StartIrradiances == {0, 900}

\* the chain built with --sim, the controller's weatherState and irradiance
\* drawn: the weather simulation of SimulationController.update is a
\* function of these two fields, and the program itself only ever runs it
\* in states 0 and 1
InitWeather ==
    \E ws \in WeatherStates : \E irr \in StartIrradiances :
    LET mods == BuiltModules(ChainTopology)
    IN /\ config = ChainTopology
       /\ simWeather = 1
       /\ solarPath = ""
       /\ stop = FALSE
       /\ callbacks = <<>>
       /\ unrealPc = "returned"
       /\ delivered = <<>>
       /\ pc = "loop"
       /\ devices = BuiltDevices(ChainTopology)
       /\ modules = mods
       /\ inverters = [i \in IdsOfClass(mods, "Inverter") |-> InverterInit]
       /\ breakers = [i \in IdsOfClass(mods, "Breaker") |-> BreakerInit]
       /\ transformers =
             [i \in IdsOfClass(mods, "Transformer") |-> TransformerInit]
       /\ meters = [i \in IdsOfClass(mods, "Meter") |-> MeterInit]
       /\ simControl = [SimulationControllerInit(1) EXCEPT
                          !.weatherState = ws, !.irradiance = irr * IrrUnit]
       /\ regs = [i \in DOMAIN mods |-> baseDataStore]
       /\ tick = 0
       /\ pos = 0
       /\ visited = {}
       /\ raised = 0
       /\ tickStart = NoConn
       /\ controlStart = SimulationControllerInit(0)
       /\ outTick = [i \in DOMAIN mods |-> 0]
       /\ usedTick = [i \in DOMAIN mods |-> NoConn]
       /\ fieldTick = [i \in DOMAIN mods |-> 0]
       /\ exported = [i \in DOMAIN mods |-> [ir |-> 0, di |-> 0, hr |-> 0]]
       /\ lastWrite = NoWrite
       /\ nWrites = 0
       /\ lastRead = NoRead

NextWeather == Iteration

\* passes of the chain from every weather state
SpecWeather == InitWeather /\ [][NextWeather]_vars

\* the chain and the topology whose pass fails, without --sim, with and
\* without a solar object to poll
InitLoop ==
    \E cfg \in {ChainTopology, NoTransformerTopology} :
    \E path \in {"", "/Game/Solar"} :
        Start(cfg, 0, path)

\* the main thread up to the exit of the loop
MainThread == SchedulerRuns \/ ExitLoop

NextLoop == MainThread \/ unrealRequest \/ Signal

\* the main thread, the unreal_thread and the shutdown signal
SpecLoop == InitLoop /\ [][NextLoop]_vars

\* the chain running without --sim, before its first pass, the
\* unreal_thread absent, or waiting for its first response, or asleep
\* after it put its first entry
InitShutdown ==
    \E q \in {<<>>} \cup {<<Entry(o)>> : o \in RequestOutcomes} :
    \E path \in {"", "/Game/Solar"} :
    LET mods == BuiltModules(ChainTopology)
    IN /\ path = "" => q = <<>>
       /\ config = ChainTopology
       /\ simWeather = 0
       /\ solarPath = path
       /\ stop = FALSE
       /\ callbacks = q
       /\ unrealPc = IF path = "" THEN "returned"
                     ELSE IF q = <<>> THEN "poll" ELSE "sleep"
       /\ delivered = <<>>
       /\ pc = "loop"
       /\ devices = BuiltDevices(ChainTopology)
       /\ modules = mods
       /\ inverters = [i \in IdsOfClass(mods, "Inverter") |-> InverterInit]
       /\ breakers = [i \in IdsOfClass(mods, "Breaker") |-> BreakerInit]
       /\ transformers =
             [i \in IdsOfClass(mods, "Transformer") |-> TransformerInit]
       /\ meters = [i \in IdsOfClass(mods, "Meter") |-> MeterInit]
       /\ simControl = SimulationControllerInit(0)
       /\ regs = [i \in DOMAIN mods |-> baseDataStore]
       /\ tick = 0
       /\ pos = 0
       /\ visited = {}
       /\ raised = 0
       /\ tickStart = NoConn
       /\ controlStart = SimulationControllerInit(0)
       /\ outTick = [i \in DOMAIN mods |-> 0]
       /\ usedTick = [i \in DOMAIN mods |-> NoConn]
       /\ fieldTick = [i \in DOMAIN mods |-> 0]
       /\ exported = [i \in DOMAIN mods |-> [ir |-> 0, di |-> 0, hr |-> 0]]
       /\ lastWrite = NoWrite
       /\ nWrites = 0
       /\ lastRead = NoRead

\* the loop and the signal; the unreal_thread takes no step of its own
NextShutdown == Iteration \/ ExitLoop \/ Signal

\* the main thread is scheduled whenever it can take a step
SpecShutdown ==
    InitShutdown /\ [][NextShutdown]_vars /\ WF_vars(Iteration \/ ExitLoop)

(***************************************************************************)
(* Properties                                                              *)
(***************************************************************************)
Built == pc \in {"loop", "pass", "discretes", "callbacks"}

PassDone == pc = "loop" /\ tick >= 1

\* C1: in every state, a breaker whose derived status isBreakerClosed is
\* false reads zero power, voltage and frequency, and so do the input
\* registers exported from these readouts.
C1_OpenBreakerReadsZero ==
    \A b \in DOMAIN breakers :
        ~ isBreakerClosed(breakers[b]) =>
            /\ BreakerRealPower(breakers[b]) = 0
            /\ BreakerReactivePower(breakers[b]) = 0
            /\ BreakerVoltageL1(breakers[b]) = 0
            /\ BreakerVoltageL2(breakers[b]) = 0
            /\ BreakerVoltageL3(breakers[b]) = 0
            /\ BreakerFrequency(breakers[b]) = 0
            /\ \A a \in {1, 2, 3, 4, 5, 7} : regs[b].ir[a] = 0

\* the field that the device's readModbus assigns from a command cell
CommandedField(id, bank, address) ==
    LET class == ModuleClass(modules[id].moduleGroup)
    IN CASE class = "Inverter" /\ bank = "hr" /\ address = 1 ->
                inverters[id].realPowerSp
         [] class = "Inverter" /\ bank = "hr" /\ address = 2 ->
                inverters[id].reactivePowerSp
         [] class = "Inverter" /\ bank = "co" -> inverters[id].isEnabled
         [] class = "Breaker" /\ bank = "co" -> breakers[id].closeCommand
         [] class = "Transformer" /\ bank = "hr" ->
                transformers[id].ratio \div 10
         [] class = "SimulationController" /\ bank = "co" ->
                simControl.voltageStepCommand
         [] class = "SimulationController" /\ bank = "hr" ->
                SimulationControllerWriteModbus(simControl)[address]

\* C2: once a pass that started after a client's write of a command cell
\* has completed, the device's commanded field equals the written value.
C2_WriteImportedByNextTick ==
    (/\ PassDone
     /\ raised = 0
     /\ lastWrite.slaveId # 0
     /\ lastWrite.tick < tick)
    => CommandedField(lastWrite.slaveId, lastWrite.bank, lastWrite.address)
         = lastWrite.value

\* the names a device lists, as pairs <<device, listed name>>
Edges(cfg) ==
    LET mods == Instantiate(cfg, 1)
    IN UNION {{<<mods[i].name, n>> :
                 n \in UNION {Range(mods[i].connections[g]) :
                                g \in DOMAIN mods[i].connections}} :
              i \in DOMAIN mods}

RECURSIVE ReachFrom(_, _, _)
ReachFrom(E, S, k) ==
    IF k = 0 THEN S
    ELSE ReachFrom(E, S \cup {e[2] : e \in {f \in E : f[1] \in S}}, k - 1)

\* the connection relation of the description has a cycle
HasCycle(cfg) ==
    LET E == Edges(cfg)
    IN \E e \in E : e[1] \in ReachFrom(E, {e[2]}, Cardinality(E))

\* a group is listed before a group that one of its devices reads from
ListedBeforeDependency(cfg) ==
    \E k \in DOMAIN cfg.order : \E j \in DOMAIN cfg.order :
        /\ k < j
        /\ \E i \in DOMAIN cfg.devices[cfg.order[k]] :
              cfg.order[j] \in DOMAIN cfg.devices[cfg.order[k]][i].connections

\* a connection list names a device that its target group does not contain
HasDanglingName(cfg) ==
    \E k \in DOMAIN cfg.order :
    \E i \in DOMAIN cfg.devices[cfg.order[k]] :
        LET conn == cfg.devices[cfg.order[k]][i].connections
        IN \E g \in DOMAIN conn :
              /\ g \in Range(cfg.order)
              /\ \E n \in Range(conn[g]) :
                    \A d \in DOMAIN cfg.devices[g] : cfg.devices[g][d].name # n

\* C3: in an acyclic topology listed in the canonical order, the output a
\* device computed in pass N used the pass-N output of every source
\* ordered before it and the pass-(N-1) output of every source ordered
\* after it.
C3_DependencyOrder ==
    (/\ Built
     /\ config.order = CanonicalOrder
     /\ ~ HasCycle(config))
    => \A d \in DOMAIN usedTick : \A s \in DOMAIN usedTick[d] :
          usedTick[d][s] = IF s < d THEN outTick[d] ELSE outTick[d] - 1

\* C4: when a device's update raised in a pass, every device ordered after
\* it was still updated in that pass.
C4_PassContinuesAfterFailure ==
    (PassDone /\ raised # 0)
    => \A d \in DOMAIN modules : d > raised => d \in visited

\* C5: a protocol read of a breaker never finds the input registers of one
\* pass together with the discrete input of another pass.
C5_NoTornRead ==
    (/\ lastRead.slaveId # 0
     /\ ModuleClass(modules[lastRead.slaveId].moduleGroup) = "Breaker"
     /\ lastRead.di >= 1)
    => lastRead.ir = lastRead.di

\* C6: a coil or holding register keeps the value the last client write
\* stored in it; no pass of the scheduler overwrites it.
C6_SchedulerKeepsCommandBanks ==
    lastWrite.slaveId # 0
    => regs[lastWrite.slaveId][lastWrite.bank][lastWrite.address]
         = lastWrite.value

\* C7: a topology with a connection to a device that does not exist in
\* the target group never gets past the build.
C7_DanglingNameRejected ==
    HasDanglingName(config) => pc \in {"init", "failed"}

\* C8: a topology with a connection cycle, or with a group listed before a
\* group it reads from, never gets past the build.
C8_CycleOrMisorderRejected ==
    (HasCycle(config) \/ ListedBeforeDependency(config))
    => pc \in {"init", "failed"}

\* the pass that just completed started in the state of the scenario:
\* irradiance 950, setpoint 2000, maxRealPower 2000, inverter enabled, both
\* close commands asserted
ScenarioPassDone ==
    /\ config = ChainTopology
    /\ PassDone
    /\ raised = 0
    /\ tickStart[1].irradiance = 950 * IrrUnit
    /\ tickStart[1].realPowerSp = 2000
    /\ tickStart[1].maxRealPower = 2000
    /\ Truthy(tickStart[1].isEnabled)
    /\ Truthy(breakers[2].closeCommand)
    /\ Truthy(breakers[4].closeCommand)

C10_OpenBreakerIsolatesChain ==
    ScenarioPassDone =>
        \A b \in DOMAIN breakers :
            ~ isBreakerClosed(breakers[b]) =>
                /\ BreakerRealPower(breakers[b]) = 0
                /\ BreakerReactivePower(breakers[b]) = 0
                /\ BreakerVoltageL1(breakers[b]) = 0
                /\ BreakerVoltageL2(breakers[b]) = 0
                /\ BreakerVoltageL3(breakers[b]) = 0
                /\ InverterRealPower(tickStart[1]) = 2000 * PowerUnit

(***************************************************************************)
(* Weather simulation                                                      *)
(***************************************************************************)
\* a tick is over: the pass returned or was left by an exception
EndOfTick == pc \in {"callbacks", "loop"} /\ tick >= 1

\* C11: with the weather simulation enabled, at the end of every tick the
\* irradiance of the controller and of every inverter is within [0, 1000].
C11_IrradianceWithinBounds ==
    (EndOfTick /\ Truthy(simWeather)) =>
        /\ simControl.irradiance >= 0
        /\ simControl.irradiance <= 1000 * IrrUnit
        /\ \A i \in DOMAIN inverters :
              /\ inverters[i].irradiance >= 0
              /\ inverters[i].irradiance <= 1000 * IrrUnit

\* the controller ran the weather simulation twice and an inverter holds
\* the largest value the noise can give it
C11_Witness ==
    /\ EndOfTick
    /\ Truthy(simWeather)
    /\ raised = 0
    /\ tick >= 2
    /\ simControl.irradiance = 950 * IrrUnit
    /\ \E i \in DOMAIN inverters : inverters[i].irradiance = 975 * IrrUnit

\* the main thread is about to call the controller's update
AtSimControl == pc = "pass" /\ pos = Len(modules)

\* of the stages of the weather simulation the coming update runs, only
\* the dusk ramp of state 4 outputs a state 5 that it was not given
NightOnlyAfterDusk ==
    LET dev == simControl.irradianceDeviation
        w == [irradiance |-> simControl.irradiance,
              weatherState |-> simControl.weatherState]
    IN \A a \in WeatherDawn(w, dev) :
          /\ a.weatherState = 5 => w.weatherState = 5
          /\ \A b \in WeatherPlateau(a, dev) :
                /\ b.weatherState = 5 => a.weatherState = 5
                /\ \A c \in WeatherDusk(b, dev) :
                      c.weatherState = 5 => b.weatherState \in {4, 5}

\* C12: a controller update with the weather simulation enabled that
\* finds weather state 5 sets the irradiance to 0 and the state to 0; no
\* update leaves the controller in state 5; state 5 is entered only from
\* state 4.
C12_NightReturnsToDawn ==
    /\ [][(AtSimControl /\ Truthy(simControl.simWeatherEnabled)) =>
            /\ simControl'.weatherState # 5
            /\ simControl.weatherState = 5 =>
                  /\ simControl'.irradiance = 0
                  /\ simControl'.weatherState = 0]_vars
    /\ [](AtSimControl => NightOnlyAfterDusk)

\* a pass that started in state 5 is over
C12_Witness ==
    /\ EndOfTick
    /\ raised = 0
    /\ Truthy(controlStart.simWeatherEnabled)
    /\ controlStart.weatherState = 5
    /\ controlStart.irradiance = 900 * IrrUnit
    /\ simControl.weatherState = 0
    /\ simControl.irradiance = 0

(***************************************************************************)
(* Shutdown, failures and the callback channel                             *)
(***************************************************************************)
\* C13: once the stop flag is set no further pass starts, and the loop
\* eventually exits, whether or not a callback is queued.
C13_ShutdownExitsLoop ==
    /\ [][stop => tick' = tick]_vars
    /\ (stop ~> pc = "done")

\* the signal arrived during the first pass, with a callback queued; the
\* pass and the callback are over and the loop has exited
C13_Witness ==
    /\ pc = "done"
    /\ stop
    /\ tick = 1
    /\ delivered # <<>>

\* C14: a pass that has started visits every device of every group
\* before the loop exits because of shutdown.
C14_PassCompletesBeforeExit ==
    (pc = "done" /\ tick >= 1) => visited = DOMAIN modules

\* C17: an exception of a device update brings the main thread back to the
\* head of the loop and leaves the unreal_thread as it is; from there
\* another pass can start unless shutdown was requested; the loop exits
\* only with the stop flag set.
C17_FailureNeverEndsLoop ==
    /\ [][(raised' # 0 /\ raised = 0) =>
            (pc' = "loop" /\ unrealPc' = unrealPc)]_vars
    /\ [][(pc' = "done" /\ pc # "done") => stop]_vars
    /\ []((pc = "loop" /\ raised # 0 /\ ~ stop /\ tick < MaxTicks) =>
            ENABLED StartPass)

\* a pass failed, the next pass started and failed as well, and the
\* unreal_thread is still polling
C17_Witness ==
    /\ pc = "loop"
    /\ raised # 0
    /\ tick >= 2
    /\ ~ stop
    /\ unrealPc \in {"poll", "sleep"}
    /\ callbacks # <<>>

\* the entries in the queue and the entry invoked last
Entries == Range(callbacks) \cup Range(delivered)

\* C18: a failed request never ends the unreal_thread: it puts an entry
\* carrying the empty snapshot, sleeps and polls again; the loop invokes
\* the callback with the snapshot that was queued.
C18_FailedPollGivesEmptySnapshot ==
    /\ [](\A e \in Entries : e.failed => e.args = <<EmptySnapshot>>)
    /\ [](unrealPc # "dead")
    /\ [][(unrealPc = "poll" /\ unrealPc' # "poll") =>
            /\ unrealPc' = "sleep"
            /\ Len(callbacks') = Len(callbacks) + 1]_vars
    /\ [][unrealPc = "sleep" => unrealPc' \in {"sleep", "poll"}]_vars
    /\ [][delivered' # delivered => delivered' = <<Head(callbacks)>>]_vars

\* the loop invoked the callback of a failed request with the empty
\* snapshot, and the unreal_thread has slept and is about to poll again
C18_Witness ==
    /\ delivered # <<>>
    /\ delivered[1].failed
    /\ delivered[1].args = <<EmptySnapshot>>
    /\ unrealPc = "poll"

\* C19: the number of queued callbacks never exceeds a fixed capacity.
\* The queue has none: it reaches every length the model lets it have.
C19_CallbackChannelBounded == Len(callbacks) < MaxCallbacks

(***************************************************************************)
(* Exported telemetry                                                      *)
(***************************************************************************)
\* register r, read as hundredths, is within 0.01 of the value v / unit
Decodes(r, v, unit) == Abs(r * unit - 100 * v) <= unit

\* the input registers of device id are the export of its present fields
FreshExport(id) ==
    /\ exported[id].ir >= 1
    /\ id \in DOMAIN inverters \cup DOMAIN meters =>
          (pc = "pass" /\ id \in visited)

\* C15: every telemetry field in the input registers decodes, as
\* hundredths, to the exported value within 0.01.
C15_ExportRoundTrip ==
    Built =>
    /\ \A i \in DOMAIN inverters : FreshExport(i) =>
          /\ Decodes(regs[i].ir[1], InverterRealPower(inverters[i]), PowerUnit)
          /\ Decodes(regs[i].ir[2], InverterReactivePower(inverters[i]),
                     PowerUnit)
          /\ Decodes(regs[i].ir[3], inverters[i].voltageL1, VoltUnit)
          /\ Decodes(regs[i].ir[4], inverters[i].voltageL2, VoltUnit)
          /\ Decodes(regs[i].ir[5], inverters[i].voltageL3, VoltUnit)
    /\ \A m \in DOMAIN meters : FreshExport(m) =>
          /\ Decodes(regs[m].ir[1], meters[m].voltageL1, VoltUnit)
          /\ Decodes(regs[m].ir[2], meters[m].voltageL2, VoltUnit)
          /\ Decodes(regs[m].ir[3], meters[m].voltageL3, VoltUnit)
          /\ Decodes(regs[m].ir[7], meters[m].frequency, VoltUnit)
          /\ Decodes(regs[m].ir[8], meters[m].realPower, PowerUnit)
          /\ Decodes(regs[m].ir[9], meters[m].reactivePower, PowerUnit)
    /\ \A b \in DOMAIN breakers : FreshExport(b) =>
          /\ Decodes(regs[b].ir[1], BreakerVoltageL1(breakers[b]), VoltUnit)
          /\ Decodes(regs[b].ir[2], BreakerVoltageL2(breakers[b]), VoltUnit)
          /\ Decodes(regs[b].ir[3], BreakerVoltageL3(breakers[b]), VoltUnit)
          /\ Decodes(regs[b].ir[4], BreakerRealPower(breakers[b]), PowerUnit)
          /\ Decodes(regs[b].ir[5], BreakerReactivePower(breakers[b]),
                     PowerUnit)
          /\ Decodes(regs[b].ir[7], BreakerFrequency(breakers[b]), VoltUnit)
    /\ \A t \in DOMAIN transformers : FreshExport(t) =>
          /\ Decodes(regs[t].ir[1], transformers[t]._realPower, PowerUnit)
          /\ Decodes(regs[t].ir[2], transformers[t]._reactivePower,
                     PowerUnit)
          /\ Decodes(regs[t].ir[3], transformers[t]._voltageL1, VoltUnit)
          /\ Decodes(regs[t].ir[8], TransformerVoltageL1(transformers[t]),
                     VoltUnit)

\* C16: a meter or breaker whose reactivePower is 0 has power factor
\* exactly 1, whatever its realPower, and exports 100 for it; the
\* division of the power factor is only made with a nonzero reactivePower.
C16_UnityPowerFactor ==
    Built =>
    /\ \A m \in DOMAIN meters :
          /\ meters[m].reactivePower = 0 => MeterPowerFactor(meters[m]) = 100
          /\ MeterPowerFactor(meters[m]) # 100 => meters[m].reactivePower # 0
          /\ (FreshExport(m) /\ meters[m].reactivePower = 0) =>
                regs[m].ir[10] = 100
    /\ \A b \in DOMAIN breakers :
          /\ BreakerReactivePower(breakers[b]) = 0 =>
                BreakerPowerFactor(breakers[b]) = 100
          /\ BreakerPowerFactor(breakers[b]) # 100 =>
                BreakerReactivePower(breakers[b]) # 0
          /\ (FreshExport(b) /\ BreakerReactivePower(breakers[b]) = 0) =>
                regs[b].ir[6] = 100

\* a breaker exported power factor 1 both with realPower 0 and with
\* realPower 2000, and the meter has a reactivePower other than 0
C16_Witness ==
    /\ Built
    /\ \E b \in DOMAIN breakers :
          /\ FreshExport(b)
          /\ BreakerReactivePower(breakers[b]) = 0
          /\ BreakerRealPower(breakers[b]) = 2000 * PowerUnit
          /\ regs[b].ir[6] = 100
    /\ \E b \in DOMAIN breakers :
          /\ FreshExport(b)
          /\ BreakerReactivePower(breakers[b]) = 0
          /\ BreakerRealPower(breakers[b]) = 0
          /\ regs[b].ir[6] = 100
    /\ \E m \in DOMAIN meters : meters[m].reactivePower # 0

(***************************************************************************)
(* Protocol addresses                                                      *)
(***************************************************************************)
\* the names of the description, group after group in the order listed
RECURSIVE Listed(_, _)
Listed(cfg, k) ==
    IF k > Len(cfg.order) THEN <<>>
    ELSE [i \in 1..Len(cfg.devices[cfg.order[k]]) |->
            [name |-> cfg.devices[cfg.order[k]][i].name,
             group |-> cfg.order[k]]]
         \o Listed(cfg, k + 1)

\* C20: the k-th device listed has slave id k, the simulation controller
\* has the next id, every id is held by one device, self.devices holds
\* every id once and every id has its own register file.
C20_SequentialAddresses ==
    Built =>
    LET listed == Listed(config, 1)
        n == Len(listed)
    IN /\ DOMAIN modules = 1 .. (n + 1)
       /\ \A k \in 1 .. n :
             /\ modules[k].name = listed[k].name
             /\ modules[k].moduleGroup = listed[k].group
             /\ k \in Range(devices[listed[k].group])
       /\ modules[n + 1].moduleGroup = "simControl"
       /\ devices["simControl"] = <<n + 1>>
       /\ \A g \in DOMAIN devices : \A a, b \in DOMAIN devices[g] :
             devices[g][a] = devices[g][b] => a = b
       /\ \A g, h \in DOMAIN devices :
             g # h => Range(devices[g]) \cap Range(devices[h]) = {}
       /\ DOMAIN regs = DOMAIN modules

\* a description whose groups are not in the canonical order is built and
\* its register files exist
C20_Witness ==
    /\ Built
    /\ config = MisorderedTopology
    /\ modules[2].moduleGroup = "transformers"
    /\ modules[6].name = "simControl"
    /\ DOMAIN regs = 1 .. 6

(***************************************************************************)
(* Connections after generateDevices                                       *)
(***************************************************************************)
\* the device group whose members an input list of device i refers to
ConnectionGroup(i, inputType) ==
    IF modules[i].moduleGroup = "simControl"
    THEN CASE inputType = "inverters" -> "inverters"
           [] inputType = "meters" -> "checkMeters"
           [] inputType = "breakers" -> "mainBreakers"
    ELSE inputType

\* C21: once generateDevices has returned no connections map holds a name:
\* every entry of every input list is a device of the group the list is
\* named for, and no later step changes a connections map.
C21_ConnectionsAreReferences ==
    /\ [](Built =>
          \A i \in DOMAIN modules :
             \A inputType \in DOMAIN modules[i].connections :
                \A k \in DOMAIN modules[i].connections[inputType] :
                   LET d == modules[i].connections[inputType][k]
                   IN /\ d \in DOMAIN modules
                      /\ modules[d].moduleGroup = ConnectionGroup(i, inputType)
                      /\ d \in Range(devices[ConnectionGroup(i, inputType)]))
    /\ [][Built => modules' = modules]_vars

\* a pass has run over a description one of whose names matches no device:
\* the name is gone and the list holds the one device that exists
C21_Witness ==
    /\ PassDone
    /\ config = DanglingTopology
    /\ modules[2].connections["inverters"] = <<1>>
    /\ modules[4].connections["transformers"] = <<3>>
    /\ modules[6].connections["breakers"] = <<4>>

(***************************************************************************)
(* Passes over device fields the command registers can hold                *)
(***************************************************************************)
\* two transformers on the feeder breaker, both read by the main breaker
TwoTransformerTopology ==
    [order |-> CanonicalOrder,
     devices |-> [ChainDevices EXCEPT
        !.transformers =
           <<Dev("transformer1", [feederBreakers |-> <<"feeder1Breaker">>]),
             Dev("transformer2", [feederBreakers |-> <<"feeder1Breaker">>])>>,
        !.mainBreakers =
           <<Dev("mainBreaker1",
                 [feederBreakers |-> <<"feeder1Breaker">>,
                  transformers |-> <<"transformer1", "transformer2">>])>>]]

\* a feeder breaker whose only inverter name matches nothing, a
\* transformer without connections, a main breaker with an empty list
IsolatedTopology ==
    [order |-> CanonicalOrder,
     devices |-> [ChainDevices EXCEPT
        !.feederBreakers =
           <<Dev("feeder1Breaker", [inverters |-> <<"inverter9">>])>>,
        !.transformers = <<Dev("transformer1", NoConn)>>,
        !.mainBreakers =
           <<Dev("mainBreaker1",
                 [feederBreakers |-> <<>>,
                  transformers |-> <<"transformer1">>])>>]]

DeviceTopologies ==
    <<ChainTopology, TwoTransformerTopology, IsolatedTopology>>

\* values of the inverter's command fields and irradiance, and of the
\* feeder breaker's closeCommand
EnableValues == {0, 1}
RealPowerSetpoints == {1000, 2000}
ReactivePowerSetpoints == {0, 2000}
InverterIrradiances == {475, 950}
CloseCommands == {0, 1}

\* a built plant without --sim whose inverters and feeder breakers hold
\* drawn command values
InitDevices ==
    \E t \in DOMAIN DeviceTopologies :
    \E en \in EnableValues, sp \in RealPowerSetpoints,
       qsp \in ReactivePowerSetpoints, irr \in InverterIrradiances,
       cc \in CloseCommands :
    LET cfg == DeviceTopologies[t]
        mods == BuiltModules(cfg)
    IN /\ config = cfg
       /\ simWeather = 0
       /\ solarPath = ""
       /\ stop = FALSE
       /\ callbacks = <<>>
       /\ unrealPc = "returned"
       /\ delivered = <<>>
       /\ pc = "loop"
       /\ devices = BuiltDevices(cfg)
       /\ modules = mods
       /\ inverters = [i \in IdsOfClass(mods, "Inverter") |->
             [InverterInit EXCEPT !.isEnabled = en, !.realPowerSp = sp,
                                  !.reactivePowerSp = qsp,
                                  !.irradiance = irr * IrrUnit]]
       /\ breakers = [i \in IdsOfClass(mods, "Breaker") |->
             IF mods[i].moduleGroup = "feederBreakers"
             THEN [BreakerInit EXCEPT !.closeCommand = cc]
             ELSE BreakerInit]
       /\ transformers =
             [i \in IdsOfClass(mods, "Transformer") |-> TransformerInit]
       /\ meters = [i \in IdsOfClass(mods, "Meter") |-> MeterInit]
       /\ simControl = SimulationControllerInit(0)
       /\ regs = [i \in DOMAIN mods |-> baseDataStore]
       /\ tick = 0
       /\ pos = 0
       /\ visited = {}
       /\ raised = 0
       /\ tickStart = NoConn
       /\ controlStart = SimulationControllerInit(0)
       /\ outTick = [i \in DOMAIN mods |-> 0]
       /\ usedTick = [i \in DOMAIN mods |-> NoConn]
       /\ fieldTick = [i \in DOMAIN mods |-> 0]
       /\ exported = [i \in DOMAIN mods |-> [ir |-> 0, di |-> 0, hr |-> 0]]
       /\ lastWrite = NoWrite
       /\ nWrites = 0
       /\ lastRead = NoRead

NextDevices == Iteration

SpecDevices == InitDevices /\ [][NextDevices]_vars

Min(a, b) == IF a < b THEN a ELSE b

\* C22: an enabled inverter's real power is the smaller of its set point
\* and irradiance / 950 of its maximum, its reactive power the smaller of
\* its set point and its maximum; a disabled inverter has both at 0; right
\* after its update its input registers hold these values.
C22_InverterOutput ==
    \A i \in DOMAIN inverters :
       LET inv == inverters[i]
           realPower ==
              IF inv.isEnabled = 1
              THEN Min(inv.realPowerSp * PowerUnit,
                       inv.irradiance * inv.maxRealPower)
              ELSE 0
           reactivePower ==
              IF inv.isEnabled = 1
              THEN Min(inv.reactivePowerSp, inv.maxReactivePower) * PowerUnit
              ELSE 0
       IN /\ InverterRealPower(inv) = realPower
          /\ InverterReactivePower(inv) = reactivePower
          /\ (pc = "pass" /\ pos = i + 1) =>
                /\ regs[i].ir[1] = Trunc(realPower, PowerUnit)
                /\ regs[i].ir[2] = Trunc(reactivePower, PowerUnit)

\* an enabled inverter at half the reference irradiance, both set points
\* above what it can give, has exported 1000 W and 1500 var
C22_Witness ==
    /\ pc = "pass"
    /\ pos = 2
    /\ tick = 2
    /\ inverters[1].isEnabled = 1
    /\ inverters[1].irradiance = 475 * IrrUnit
    /\ inverters[1].realPowerSp = 2000
    /\ inverters[1].reactivePowerSp = 2000
    /\ regs[1].ir[1] = 1000
    /\ regs[1].ir[2] = 1500

\* C23: an update of a feeder breaker that is not skipped leaves every
\* connected inverter with isEnabled equal to the breaker's closeCommand,
\* and the power it stores is the sum over the inverters as they were
\* enabled before this update.
C23_EnableFollowsCloseCommand ==
    [][\A id \in DOMAIN breakers :
          (/\ AtDevice(id, "Breaker")
           /\ modules[id].moduleGroup = "feederBreakers"
           /\ ~ Falsy(modules[id].connections, "inverters")) =>
             LET invs == modules[id].connections["inverters"]
             IN /\ \A k \in DOMAIN invs :
                      inverters'[invs[k]].isEnabled = breakers[id].closeCommand
                /\ breakers'[id]._realPower =
                      SumSeq([k \in DOMAIN invs |->
                                InverterRealPower(inverters[invs[k]])])
                /\ breakers'[id]._reactivePower =
                      SumSeq([k \in DOMAIN invs |->
                                InverterReactivePower(inverters[invs[k]])])
      ]_vars

\* a feeder breaker commanded 0 has summed 2000 W of an inverter that was
\* enabled and has left the inverter disabled
C23_Witness ==
    /\ pc = "discretes"
    /\ pos = 2
    /\ tick = 1
    /\ breakers[2].closeCommand = 0
    /\ breakers[2]._realPower = 2000 * PowerUnit
    /\ tickStart[1].isEnabled = 1
    /\ inverters[1].isEnabled = 0

\* C24: an update of a main breaker that is not skipped stores the sums
\* of the real and reactive power read from its feeder breakers, and per
\* phase the average of the secondary voltages of its transformers
\* (their sum divided by their number).
C24_MainBreakerAggregates ==
    [][\A id \in DOMAIN breakers :
          (/\ AtDevice(id, "Breaker")
           /\ modules[id].moduleGroup = "mainBreakers"
           /\ ~ Falsy(modules[id].connections, "feederBreakers")
           /\ ~ Falsy(modules[id].connections, "transformers")) =>
             LET brks == modules[id].connections["feederBreakers"]
                 trfs == modules[id].connections["transformers"]
             IN /\ breakers'[id]._realPower =
                      SumSeq([k \in DOMAIN brks |->
                                BreakerRealPower(breakers[brks[k]])])
                /\ breakers'[id]._reactivePower =
                      SumSeq([k \in DOMAIN brks |->
                                BreakerReactivePower(breakers[brks[k]])])
                /\ breakers'[id]._voltageL1 * Len(trfs) =
                      SumSeq([k \in DOMAIN trfs |->
                                TransformerVoltageL1(transformers[trfs[k]])])
                /\ breakers'[id]._voltageL2 * Len(trfs) =
                      SumSeq([k \in DOMAIN trfs |->
                                TransformerVoltageL2(transformers[trfs[k]])])
                /\ breakers'[id]._voltageL3 * Len(trfs) =
                      SumSeq([k \in DOMAIN trfs |->
                                TransformerVoltageL3(transformers[trfs[k]])])
      ]_vars

\* device id is a feeder breaker without inverters, a main breaker
\* without feeder breakers or a transformer without feeder breakers
Unconnected(id) ==
    LET conn == modules[id].connections
        group == modules[id].moduleGroup
    IN \/ group = "feederBreakers" /\ Falsy(conn, "inverters")
       \/ group = "mainBreakers" /\ Falsy(conn, "feederBreakers")
       \/ group = "transformers" /\ Falsy(conn, "feederBreakers")

\* C25: the update of a feeder breaker without inverters, of a main
\* breaker without feeder breakers and of a transformer without feeder
\* breakers raises nothing and leaves the device's fields and register
\* file as they were, and the pass goes on to the next device and ends
\* with every device visited.
C25_UnconnectedDeviceSkipped ==
    /\ [][\A id \in DOMAIN modules :
             (pc = "pass" /\ pos = id /\ Unconnected(id)) =>
                /\ breakers' = breakers
                /\ transformers' = transformers
                /\ regs' = regs
                /\ raised' = 0
                /\ pc' = "pass"
                /\ pos' = id + 1
         ]_vars
    /\ []((PassDone /\ \E id \in DOMAIN modules : Unconnected(id)) =>
             visited = DOMAIN modules)

\* a pass over the plant whose feeder breaker, transformer and main
\* breaker have no inputs has ended: the three register files are as
\* built and the check meter's registers are written
C25_Witness ==
    /\ PassDone
    /\ config = IsolatedTopology
    /\ Unconnected(2) /\ Unconnected(3) /\ Unconnected(4)
    /\ visited = 1 .. 6
    /\ raised = 0
    /\ regs[2] = baseDataStore
    /\ regs[3] = baseDataStore
    /\ regs[4] = baseDataStore
    /\ breakers[4] = BreakerInit
    /\ transformers[3] = TransformerInit
    /\ regs[5].ir[7] = 6000

(***************************************************************************)
(* Weather states                                                          *)
(***************************************************************************)
\* C26: the 60 sub-steps of weather state 0 end with the irradiance
\* within [800, 950], and the state is then 1.
C26_DawnRampEndsInPlateauBand ==
    (/\ AtSimControl
     /\ Truthy(simControl.simWeatherEnabled)
     /\ simControl.weatherState = 0) =>
        \A w \in WeatherDawn([irradiance |-> simControl.irradiance,
                              weatherState |-> simControl.weatherState],
                             simControl.irradianceDeviation) :
           /\ w.weatherState = 1
           /\ w.irradiance >= 800 * IrrUnit
           /\ w.irradiance <= 950 * IrrUnit

\* the blocks of the weather simulation the coming update runs change the
\* state only from 0 to 1 (dawn), from 4 to 5 (dusk) and from 5 to 0
\* (night)
WeatherStagesFollowCycle ==
    LET dev == simControl.irradianceDeviation
        w == [irradiance |-> simControl.irradiance,
              weatherState |-> simControl.weatherState]
    IN \A a \in WeatherDawn(w, dev) :
          /\ a.weatherState = w.weatherState
             \/ (w.weatherState = 0 /\ a.weatherState = 1)
          /\ \A b \in WeatherPlateau(a, dev) :
                /\ b.weatherState = a.weatherState
                /\ \A c \in WeatherDusk(b, dev) :
                      /\ c.weatherState = b.weatherState
                         \/ (b.weatherState = 4 /\ c.weatherState = 5)
                      /\ WeatherNight(c).weatherState = c.weatherState
                         \/ (/\ c.weatherState = 5
                             /\ WeatherNight(c).weatherState = 0)

\* C27: the weather state is always one of 0, 1, 2, 4, 5; only the
\* controller's update changes it, and only from 0 to 1 and from 4
\* through 5 to 0; no update sets it to 2 or 3; states 1 and 2 are never
\* left.
C27_WeatherStateTransitions ==
    /\ [](simControl.weatherState \in {0, 1, 2, 4, 5})
    /\ [][simControl'.weatherState # simControl.weatherState =>
            /\ AtSimControl
            /\ Truthy(simControl.simWeatherEnabled)
            /\ <<simControl.weatherState, simControl'.weatherState>>
                  \in {<<0, 1>>, <<4, 0>>, <<5, 0>>}]_vars
    /\ [](AtSimControl => WeatherStagesFollowCycle)

\* a pass that started in state 4 has gone through 5 to 0, and the next
\* pass has taken the state from 0 to 1
C27_Witness ==
    /\ EndOfTick
    /\ tick = 2
    /\ raised = 0
    /\ controlStart.weatherState = 0
    /\ controlStart.irradiance = 0
    /\ simControl.weatherState = 1

(***************************************************************************)
(* Callbacks served by the loop                                            *)
(***************************************************************************)
\* C28: every iteration of the loop, once its pass is over, takes the
\* entry at the head of the callback queue, if there is one, and invokes
\* it, exactly one per iteration.
C28_IterationServesOneCallback ==
    [][(pc \in {"pass", "discretes", "callbacks"} /\ pc' = "loop") =>
          IF callbacks = <<>>
          THEN callbacks' = <<>> /\ delivered' = delivered
          ELSE /\ callbacks' = Tail(callbacks)
               /\ delivered' = <<Head(callbacks)>>]_vars

(***************************************************************************)
(* Grid voltage and the plant's reactive power                             *)
(***************************************************************************)
\* total reactive power of the inverters inv, in W
TotalReactivePower(inv) ==
    LET ids == modules[Len(modules)].connections["inverters"]
    IN SumSeq([k \in DOMAIN ids |-> InverterReactivePower(inv[ids[k]])])
       \div PowerUnit

C30_InverterIrradianceNeverNegative ==
    /\ [][(AtSimControl /\ Truthy(simControl.simWeatherEnabled)) =>
            \A i \in Range(modules[Len(modules)].connections["inverters"]) :
               \E n \in -25 .. 25 :
                  LET x == simControl'.irradiance + n * IrrUnit
                  IN inverters'[i].irradiance = IF x < 0 THEN 0 ELSE x]_vars
    /\ [](\A i \in DOMAIN inverters :
             /\ inverters[i].irradiance >= 0
             /\ InverterRealPower(inverters[i]) >= 0)

\* night: the controller's irradiance is 0 and the inverter, whose draw
\* was 0 or below, has 0 and gives no power
C30_Witness ==
    /\ EndOfTick
    /\ raised = 0
    /\ controlStart.weatherState \in {4, 5}
    /\ controlStart.irradiance = 900 * IrrUnit
    /\ simControl.irradiance = 0
    /\ inverters[1].irradiance = 0
    /\ InverterRealPower(inverters[1]) = 0

(***************************************************************************)
(* The weather of a run of the simulator                                   *)
(***************************************************************************)
\* the simulation controller's update has run at least once
ControllerUpdated == Built /\ exported[Len(modules)].hr >= 1

C32_WeatherDisabledFrame ==
    /\ [][(Built /\ ~ Truthy(simWeather)) =>
            /\ simControl'.irradiance = simControl.irradiance
            /\ simControl'.weatherState = simControl.weatherState
            /\ \A i \in DOMAIN inverters :
                  inverters'[i].irradiance = inverters[i].irradiance]_vars
    /\ []((Built /\ ~ Truthy(simWeather)) =>
            \A i \in DOMAIN inverters :
               /\ inverters[i].irradiance = 0
               /\ InverterRealPower(inverters[i]) = 0
               /\ regs[i].ir[1] = 0)
    /\ [][(AtSimControl /\ ~ Truthy(simWeather) /\ raised' = 0) =>
            LET conn == modules[Len(modules)].connections
                cm == conn["meters"][1]
                mb == conn["breakers"][1]
            IN /\ \E fr \in FreqDraws :
                     meters'[cm].frequency =
                        meters[cm].frequency + Trunc(fr * VoltUnit, 1000)
               /\ \E vr \in VoltageDraws :
                     meters'[cm].voltageL1 =
                        138 * VoltUnit + Trunc(vr * 5 * VoltUnit, 10000)
               /\ meters'[cm].voltageL2 = meters'[cm].voltageL1
               /\ meters'[cm].voltageL3 = meters'[cm].voltageL1
               /\ meters'[cm].realPower = BreakerRealPower(breakers[mb])
               /\ \E rr \in ReactiveDraws :
                     meters'[cm].reactivePower =
                        Abs(BreakerReactivePower(breakers[mb])
                            + Trunc(rr * 25 * PowerUnit, 100))]_vars

\* three passes without --sim: the inverter is dark and exports 0 W, and
\* the check meter holds a grid voltage and a frequency that has moved
C32_Witness ==
    /\ PassDone
    /\ tick = 3
    /\ raised = 0
    /\ config = ChainTopology
    /\ ~ Truthy(simWeather)
    /\ simControl.irradiance = 900 * IrrUnit
    /\ simControl.weatherState = 0
    /\ inverters[1].irradiance = 0
    /\ exported[1].ir = 3
    /\ regs[1].ir[1] = 0
    /\ meters[5].voltageL1 > 137 * VoltUnit
    /\ meters[5].frequency # 60 * VoltUnit

(***************************************************************************)
(* Plants that are built and then ticked                                   *)
(***************************************************************************)
\* C33: on every plant generateDevices builds no update raises, and every
\* pass ends with all devices updated, the check meters and the
\* simulation controller included.
C33_BuiltPlantNeverRaises ==
    /\ Built => raised = 0
    /\ PassDone => visited = DOMAIN modules
====
